---- MODULE Spec2Model ----
(***************************************************************************)
(* Model of CardFarmer (src/src/main.ts): the steam-user session events,   *)
(* the paginated badge scan with its parental-wall retry (getBadges,       *)
(* parentalUnlock), the temporary profile privacy toggle                   *)
(* (setTempProfilePrivacy), the idle cycle driven by _delayTimeout         *)
(* (_fetchCardsAndPlay, _idleGames, _quitIdleGames) and close().           *)
(*                                                                         *)
(* Every await of the source is a suspension point: the request is issued  *)
(* by one action and its answer is consumed by another one.  Node runs one *)
(* callback at a time, so each action is one run-to-completion step.       *)
(* appTitle is only logged and is left out of the item records.            *)
(***************************************************************************)
EXTENDS Integers, Sequences, FiniteSets, TLC

\* ------------------------------------------------------------------ constants
MAX_GAMES_TO_IDLE == 27
TIMEOUT_BETWEEN_CHECKS == 900000
COOLDOWN_DELAY == 10000
PRIVACY_DELAY == 10000

\* --------------------------------------------------------------------- bounds
\* pagelinks a page may show (so a scan reads at most MaxLinks + 1 pages)
MaxLinks == 1
\* rows of the largest badge page the server serves
BigRows == 28
\* _fetchCardsAndPlay invocations in one run
MaxFetches == 2
\* unlock requests of one scan that are counted (the count stops there, the
\* requests do not)
MaxUnlocks == 2

VARIABLES
    alive,        \* the node process is running
    session,      \* steam-user session: "none", "loggedOn", "web", "off"
    rlOpen,       \* the readline interface still delivers lines
    parentalPin,  \* this._parentalPin (0 = not passed)
    userGames,    \* this._userGames: [present, ids]
    timers,       \* live node timers in arming order: [kind, held]
    fetches,      \* running _fetchCardsAndPlay calls, suspended inside getBadges
                  \* (discovered, asked, unlocks, walled and dropped are
                  \* history: the rows read and the pages requested by this
                  \* attempt, the unlock requests of this scan, whether each
                  \* of them answered an access obstacle, and whether an
                  \* aborted attempt had collected games)
    idles,        \* running _idleGames calls, awaiting the ajaxsetprivacy answer
    reverts,      \* setTempProfilePrivacy(false) calls awaiting their answer
    active,       \* app ids last passed to steamClient.gamesPlayed
    started,      \* number of _fetchCardsAndPlay invocations so far
    ops,          \* history: the effects issued by the last step
    lastScan,     \* history: the value getBadges returned in the last step
    activeFrom,   \* history: the scan result of the activation of the last step
    revertOwed,   \* history: profile made private, no revert request issued since
    exited        \* history: the operator typed `exit`

vars == <<alive, session, rlOpen, parentalPin, userGames, timers, fetches, idles,
          reverts, active, started, ops, lastScan, activeFrom, revertOwed, exited>>

\* ---------------------------------------------------------------- page inputs
Digits == {"0", "1", "2", "3", "4", "5", "6", "7", "8", "9"}

DigitVal(c) ==
    CASE c = "0" -> 0 [] c = "1" -> 1 [] c = "2" -> 2 [] c = "3" -> 3
      [] c = "4" -> 4 [] c = "5" -> 5 [] c = "6" -> 6 [] c = "7" -> 7
      [] c = "8" -> 8 [] c = "9" -> 9

\* a badge row: the app id of its overlay link and the characters of its
\* progress_info_bold text
Row(id, text) == [appId |-> id, text |-> text]

\* "3 card drops remaining", "No card drops remaining", "0 card drops
\* remaining", "12 card drops remaining", no text at all
RowsA == << Row(1, <<"3", " ", "c">>), Row(2, <<"N", "o", " ", "c">>),
            Row(4, <<"0", " ", "c">>), Row(3, <<"1", "2", " ", "c">>),
            Row(5, <<>>) >>
RowsBig == [k \in 1..BigRows |-> Row(k, <<"1", " ", "c">>)]

RowSets == {RowsA, RowsBig}

Pages == [links : 0..MaxLinks, rows : RowSets]

\* consecutive pages of one listing do not hold the same rows: pg can follow
\* the rows read so far by this attempt
NextPageOf(discovered, pg) ==
    IF Len(discovered) < Len(pg.rows) THEN TRUE
    ELSE SubSeq(discovered, Len(discovered) - Len(pg.rows) + 1, Len(discovered))
             # pg.rows

Selections == { [present |-> FALSE, ids |-> {}],
                [present |-> TRUE, ids |-> {2, 5}] }

Pins == {0, 1234}

\* ------------------------------------------------------------------- helpers
RemoveAt(s, k) == SubSeq(s, 1, k - 1) \o SubSeq(s, k + 1, Len(s))

Min(a, b) == IF a <= b THEN a ELSE b

\* .replace(/[^0-9]+/g, "")
StripNonDigits(text) == SelectSeq(text, LAMBDA c : c \in Digits)

\* unary plus on a string of decimal digits
RECURSIVE ToNumber(_)
ToNumber(ds) ==
    IF ds = <<>> THEN 0
    ELSE 10 * ToNumber(SubSeq(ds, 1, Len(ds) - 1)) + DigitVal(ds[Len(ds)])

\* if (remainingCards): a non-empty string is truthy
HasRemaining(remainingCards) == remainingCards # <<>>

\* !this._userGames || (this._userGames && this._userGames.has(appId))
Selected(appId) == ~userGames.present \/ appId \in userGames.ids

\* the callback of $(".badges_sheet .badge_row").each
RECURSIVE ParseRows(_)
ParseRows(rows) ==
    IF rows = <<>> THEN <<>>
    ELSE LET row == Head(rows)
             remainingCards == StripNonDigits(row.text)
         IN  (IF HasRemaining(remainingCards) /\ Selected(row.appId)
              THEN << [appId |-> row.appId, leftCards |-> ToNumber(remainingCards)] >>
              ELSE <<>>) \o ParseRows(Tail(rows))

\* gamesWithCards.slice(0, CardFarmer.MAX_GAMES_TO_IDLE)
SliceMutant(games) == games
Slice(games) == SubSeq(games, 1, Min(MAX_GAMES_TO_IDLE, Len(games)))

\* games.map((game) => game.appId)
AppIds(games) == [k \in 1..Len(games) |-> games[k].appId]

\* !gamesWithCards.length
NoGamesMutant(games) == FALSE
NoGames(games) == Len(games) = 0

\* -------------------------------------------------------------------- timers
HandleOf(kind) == IF kind = "privacy" THEN "_privacyTimeout" ELSE "_delayTimeout"

Delay(kind) ==
    CASE kind = "dwell" -> TIMEOUT_BETWEEN_CHECKS
      [] kind = "cooldown" -> COOLDOWN_DELAY
      [] kind = "privacy" -> PRIVACY_DELAY

\* clearTimeout(this.<handle>): cancels the timer the handle refers to, if live
ClearTimeoutMutant(ts, handle) == ts
ClearTimeout(ts, handle) ==
    SelectSeq(ts, LAMBDA t : ~(t.held /\ HandleOf(t.kind) = handle))

\* this.<handle> = setTimeout(..): the handle now refers to the new timer only
SetTimeout(ts, kind) ==
    Append([j \in DOMAIN ts |->
               IF HandleOf(ts[j].kind) = HandleOf(kind)
               THEN [ts[j] EXCEPT !.held = FALSE] ELSE ts[j]],
           [kind |-> kind, held |-> TRUE])

Holds(ts, handle) == \E j \in DOMAIN ts : ts[j].held /\ HandleOf(ts[j].kind) = handle

\* node fires timers in deadline order: a timer armed earlier with a delay
\* that is not longer fires first
CanFire(k) == \A j \in 1..(k - 1) : Delay(timers[j].kind) > Delay(timers[k].kind)

CycleTimers == {j \in DOMAIN timers : timers[j].kind \in {"dwell", "cooldown"}}
PrivacyTimers == {j \in DOMAIN timers : timers[j].kind = "privacy"}

\* ---------------------------------------------------------------------- init
NoScan == [result |-> <<>>, discovered |-> <<>>, unlocks |-> 0, dropped |-> FALSE,
           valid |-> FALSE]

\* getBadges entered: totalPages = 1, gamesWithCards = [], currentPage = 1 and
\* the first page is requested
NewScan(unlocks, walled) ==
    [pc |-> "page", currentPage |-> 1, totalPages |-> 1, gamesWithCards |-> <<>>,
     discovered |-> <<>>, asked |-> <<1>>, unlocks |-> unlocks, walled |-> walled,
     dropped |-> FALSE]

\* return await this.getBadges(): the scan starts over in a new call with its
\* own totalPages, gamesWithCards and currentPage
RestartMutant(t) ==
    [NewScan(t.unlocks, t.walled) EXCEPT !.dropped = t.dropped,
                                         !.gamesWithCards = t.gamesWithCards]
Restart(t) == [NewScan(t.unlocks, t.walled) EXCEPT !.dropped = t.dropped]

Init ==
    /\ alive = TRUE
    /\ session = "none"
    /\ rlOpen = TRUE
    /\ parentalPin \in Pins
    /\ userGames \in Selections
    /\ timers = <<>>
    /\ fetches = <<>>
    /\ idles = <<>>
    /\ reverts = 0
    /\ active = <<>>
    /\ started = 0
    /\ ops = {}
    /\ lastScan = NoScan
    /\ activeFrom = <<>>
    /\ revertOwed = FALSE
    /\ exited = FALSE

\* a promise rejected with nobody handling it: node either only warns or ends
\* the process, depending on its version and flags.  The first four arguments
\* are the values the step leaves when the process goes on.
Unhandled(ses, fs, is, rv) ==
    \E exits \in BOOLEAN :
        IF exits
        THEN /\ alive' = FALSE
             /\ session' = ses
             /\ timers' = <<>>
             /\ fetches' = <<>>
             /\ idles' = <<>>
             /\ reverts' = 0
        ELSE /\ alive' = TRUE
             /\ session' = ses
             /\ timers' = timers
             /\ fetches' = fs
             /\ idles' = is
             /\ reverts' = rv

\* close(): both handles cleared, readline closed, steam client logged off
CloseTimers == ClearTimeout(ClearTimeout(timers, "_delayTimeout"), "_privacyTimeout")

\* ------------------------------------------------------------ session events
\* steamClient.once("loggedOn"): setPersona, webLogOn, emit LOGIN
LoggedOn ==
    /\ alive /\ session = "none"
    /\ session' = "loggedOn"
    /\ ops' = {"webLogOn"}
    /\ UNCHANGED <<alive, rlOpen, parentalPin, userGames, timers, fetches,
                   idles, reverts, active, started, revertOwed, exited>>
    /\ lastScan' = NoScan
    /\ activeFrom' = <<>>

\* steamClient.once("webSession"): cookies stored, WEB_LOGIN emitted, whose
\* listener _fetchCardsAndPlay runs up to the first page request of getBadges
WebSession ==
    /\ alive /\ session = "loggedOn"
    /\ session' = "web"
    /\ fetches' = Append(fetches, NewScan(0, TRUE))
    /\ started' = started + 1
    /\ ops' = {"GET", "scanStart"}
    /\ UNCHANGED <<alive, rlOpen, parentalPin, userGames, timers, idles,
                   reverts, active, revertOwed, exited>>
    /\ lastScan' = NoScan
    /\ activeFrom' = <<>>

\* ------------------------------------------------------------------ getBadges
\* _fetchCardsAndPlay after `await this.getBadges()` returned games
AfterScan(games) ==
    IF NoGames(games)
    THEN \* this._idleGames() only logs; this.close(); return
         /\ timers' = CloseTimers
         /\ rlOpen' = FALSE
         /\ session' = "off"
         /\ idles' = idles
         /\ ops' = {"scanReturn", "logOff"}
                    \cup (IF Holds(timers, "_delayTimeout") THEN {"cancelCycle"} ELSE {})
                    \cup (IF Holds(timers, "_privacyTimeout") THEN {"cancelPrivacy"} ELSE {})
    ELSE \* this._idleGames(slice) runs up to the ajaxsetprivacy request, then
         \* clearTimeout(this._delayTimeout) and the dwell timer is armed
         /\ idles' = Append(idles, [games |-> Slice(games), scan |-> games])
         /\ timers' = SetTimeout(ClearTimeout(timers, "_delayTimeout"), "dwell")
         /\ ops' = {"scanReturn", "POST privacy", "armDwell"}
                    \cup (IF Holds(timers, "_delayTimeout") THEN {"cancelCycle"} ELSE {})
         /\ UNCHANGED <<rlOpen, session>>

\* the page request of call i is answered with page pg and the page is parsed
PageOk(i, pg) ==
    /\ alive /\ i \in DOMAIN fetches /\ fetches[i].pc = "page"
    /\ NextPageOf(fetches[i].discovered, pg)
    /\ LET t == fetches[i]
           totalPages == pg.links + 1
           gamesWithCards == t.gamesWithCards \o ParseRows(pg.rows)
           discovered == t.discovered \o pg.rows
           nextPage == t.currentPage + 1
       IN  IF nextPage <= totalPages
           THEN /\ fetches' = [fetches EXCEPT ![i] =
                                  [t EXCEPT !.currentPage = nextPage,
                                            !.totalPages = totalPages,
                                            !.gamesWithCards = gamesWithCards,
                                            !.asked = Append(@, nextPage),
                                            !.discovered = discovered]]
                /\ ops' = {"GET"}
                /\ lastScan' = NoScan
                /\ UNCHANGED <<timers, rlOpen, session, idles>>
           ELSE /\ fetches' = RemoveAt(fetches, i)
                /\ lastScan' = [result |-> gamesWithCards, discovered |-> discovered,
                                unlocks |-> t.unlocks, dropped |-> t.dropped,
                                valid |-> TRUE]
                /\ AfterScan(gamesWithCards)
    /\ UNCHANGED <<alive, parentalPin, userGames, reverts, active, started,
                   revertOwed, exited>>
    /\ activeFrom' = <<>>

\* !this._parentalPin
NoPinMutant(pin) == FALSE
NoPin(pin) == pin = 0

\* the page request of call i is rejected, or parsing the page throws: the
\* catch block runs.  cause is "obstacle" (parental wall) or "other".
PageFail(i, cause) ==
    /\ alive /\ i \in DOMAIN fetches /\ fetches[i].pc = "page"
    /\ \/ \* throw new Error("parental pin not passed!")
          /\ NoPin(parentalPin)
          /\ Unhandled(session, RemoveAt(fetches, i), idles, reverts)
          /\ ops' = {"scanThrow", cause}
       \/ \* await this.parentalUnlock(this._parentalPin): the request is posted
          /\ ~NoPin(parentalPin)
          /\ fetches' = [fetches EXCEPT
                            ![i].pc = "unlock",
                            ![i].unlocks = Min(@ + 1, MaxUnlocks),
                            ![i].walled = @ /\ cause = "obstacle",
                            ![i].dropped = @ \/ fetches[i].gamesWithCards # <<>>]
          /\ ops' = {"POST unlock", cause}
          /\ UNCHANGED <<alive, session, timers, idles, reverts>>
    /\ UNCHANGED <<rlOpen, parentalPin, userGames, active, started, revertOwed,
                   exited>>
    /\ lastScan' = NoScan
    /\ activeFrom' = <<>>

UnlockAnswers == [success : BOOLEAN, setCookie : {"none", "other", "steamparental"}]

\* history: what the answer carried
AnswerLabels(r) ==
    {"unlockAnswer"} \cup (IF r.success THEN {"flag"} ELSE {})
                     \cup (IF r.setCookie = "steamparental" THEN {"cookie"} ELSE {})

\* response.data.success && response.headers["set-cookie"] and a cookie of it
\* contains "steamparental"
UnlockedMutant(r) == r.success
Unlocked(r) == r.success /\ r.setCookie # "none" /\ r.setCookie = "steamparental"

\* the ajaxunlock request of call i is answered with r
UnlockResp(i, r) ==
    /\ alive /\ i \in DOMAIN fetches /\ fetches[i].pc = "unlock"
    /\ IF Unlocked(r)
       THEN \* return await this.getBadges()
            /\ fetches' = [fetches EXCEPT ![i] = Restart(fetches[i])]
            /\ ops' = {"GET", "restart"} \cup AnswerLabels(r)
            /\ UNCHANGED <<alive, session, timers, idles, reverts>>
       ELSE \* this._steamClient.logOff(); throw new Error("wrong pin!")
            /\ Unhandled("off", RemoveAt(fetches, i), idles, reverts)
            /\ ops' = {"logOff", "scanThrow", "wrongPin"} \cup AnswerLabels(r)
    /\ UNCHANGED <<rlOpen, parentalPin, userGames, active, started, revertOwed,
                   exited>>
    /\ lastScan' = NoScan
    /\ activeFrom' = <<>>

\* the ajaxunlock request of call i fails (the post itself rejects)
UnlockError(i) ==
    /\ alive /\ i \in DOMAIN fetches /\ fetches[i].pc = "unlock"
    /\ Unhandled(session, RemoveAt(fetches, i), idles, reverts)
    /\ ops' = {"scanThrow"}
    /\ UNCHANGED <<rlOpen, parentalPin, userGames, active, started, revertOwed,
                   exited>>
    /\ lastScan' = NoScan
    /\ activeFrom' = <<>>

\* ------------------------------------------------------ setTempProfilePrivacy
\* _idleGames reaches gamesPlayed only when `await
\* this.setTempProfilePrivacy(true)` did not throw
PlaysAfterMutant(success) == TRUE
PlaysAfter(success) == success

\* the ajaxsetprivacy request of _idleGames call j (isPrivate = true) is
\* answered; success is response.data.success
PrivacyResp(j, success) ==
    /\ alive /\ j \in DOMAIN idles
    /\ IF success
       THEN \* the revert timer is armed and setTempProfilePrivacy returns
            /\ timers' = SetTimeout(timers, "privacy")
            /\ idles' = RemoveAt(idles, j)
            /\ revertOwed' = TRUE
            /\ UNCHANGED <<alive, session, fetches, reverts>>
       ELSE \* this._steamClient.logOff(); throw: _idleGames rejects
            /\ Unhandled("off", fetches, RemoveAt(idles, j), reverts)
            /\ UNCHANGED revertOwed
    /\ IF PlaysAfter(success)
       THEN \* this._steamClient.gamesPlayed(games.map((game) => game.appId))
            /\ active' = AppIds(idles[j].games)
            /\ activeFrom' = idles[j].scan
       ELSE /\ active' = active
            /\ activeFrom' = <<>>
    /\ ops' = (IF success THEN {"private", "armPrivacy"} ELSE {"logOff", "idleThrow"})
               \cup (IF PlaysAfter(success) THEN {"activate"} ELSE {})
               \cup (IF PlaysAfter(success) /\ active # <<>> THEN {"wasActive"} ELSE {})
    /\ UNCHANGED <<rlOpen, parentalPin, userGames, started, exited>>
    /\ lastScan' = NoScan

\* the ajaxsetprivacy request of _idleGames call j fails (the post rejects)
PrivacyError(j) ==
    /\ alive /\ j \in DOMAIN idles
    /\ Unhandled(session, fetches, RemoveAt(idles, j), reverts)
    /\ ops' = {"idleThrow"}
    /\ UNCHANGED <<rlOpen, parentalPin, userGames, active, started, revertOwed,
                   exited>>
    /\ lastScan' = NoScan
    /\ activeFrom' = <<>>

\* the _privacyTimeout callback: this.setTempProfilePrivacy(false) posts
PrivacyFires(k) ==
    /\ alive /\ k \in DOMAIN timers /\ timers[k].kind = "privacy" /\ CanFire(k)
    /\ timers' = RemoveAt(timers, k)
    /\ reverts' = reverts + 1
    /\ revertOwed' = FALSE
    /\ ops' = {"POST revert"}
    /\ UNCHANGED <<alive, session, rlOpen, parentalPin, userGames, fetches,
                   idles, active, started, exited>>
    /\ lastScan' = NoScan
    /\ activeFrom' = <<>>

\* the ajaxsetprivacy request of a revert (isPrivate = false) is answered
RevertResp(success) ==
    /\ alive /\ reverts > 0
    /\ IF success
       THEN /\ reverts' = reverts - 1
            /\ ops' = {"public"}
            /\ UNCHANGED <<alive, session, timers, fetches, idles>>
       ELSE \* this._steamClient.logOff(); throw
            /\ Unhandled("off", fetches, idles, reverts - 1)
            /\ ops' = {"logOff", "revertThrow", "notPublic"}
    /\ UNCHANGED <<rlOpen, parentalPin, userGames, active, started, revertOwed,
                   exited>>
    /\ lastScan' = NoScan
    /\ activeFrom' = <<>>

\* the ajaxsetprivacy request of a revert fails (the post rejects)
RevertError ==
    /\ alive /\ reverts > 0
    /\ Unhandled(session, fetches, idles, reverts - 1)
    /\ ops' = {"revertThrow"}
    /\ UNCHANGED <<rlOpen, parentalPin, userGames, active, started, revertOwed,
                   exited>>
    /\ lastScan' = NoScan
    /\ activeFrom' = <<>>

\* ---------------------------------------------------------------- idle cycle
\* the dwell callback: _quitIdleGames(), then the cooldown timer is stored in
\* _delayTimeout
DwellFires(k) ==
    /\ alive /\ k \in DOMAIN timers /\ timers[k].kind = "dwell" /\ CanFire(k)
    /\ active' = <<>>
    /\ activeFrom' = <<>>
    /\ timers' = SetTimeout(RemoveAt(timers, k), "cooldown")
    /\ ops' = {"clear", "armCooldown"}
    /\ UNCHANGED <<alive, session, rlOpen, parentalPin, userGames, fetches,
                   idles, reverts, started, revertOwed, exited>>
    /\ lastScan' = NoScan

\* the cooldown callback: _fetchCardsAndPlay up to the first page request
CooldownFires(k) ==
    /\ alive /\ k \in DOMAIN timers /\ timers[k].kind = "cooldown" /\ CanFire(k)
    /\ started < MaxFetches
    /\ timers' = RemoveAt(timers, k)
    /\ fetches' = Append(fetches, NewScan(0, TRUE))
    /\ started' = started + 1
    /\ ops' = {"GET", "scanStart"}
    /\ UNCHANGED <<alive, session, rlOpen, parentalPin, userGames, idles,
                   reverts, active, revertOwed, exited>>
    /\ lastScan' = NoScan
    /\ activeFrom' = <<>>

\* the `exit` line: close()
ExitLine ==
    /\ alive /\ rlOpen
    /\ timers' = CloseTimers
    /\ rlOpen' = FALSE
    /\ session' = "off"
    /\ exited' = TRUE
    /\ ops' = {"logOff"}
               \cup (IF Holds(timers, "_delayTimeout") THEN {"cancelCycle"} ELSE {})
               \cup (IF Holds(timers, "_privacyTimeout") THEN {"cancelPrivacy"} ELSE {})
    /\ UNCHANGED <<alive, parentalPin, userGames, fetches, idles, reverts,
                   active, started, revertOwed>>
    /\ lastScan' = NoScan
    /\ activeFrom' = <<>>

\* an emitter of FETCH_CARDS asking for a refetch while the cycle waits on its
\* dwell or cooldown timer (the listener is registered, the program itself
\* never emits the event): _fetchCardsAndPlay up to the first page request
EmitFetchCards ==
    /\ alive /\ CycleTimers # {} /\ fetches = <<>>
    /\ started < MaxFetches
    /\ fetches' = Append(fetches, NewScan(0, TRUE))
    /\ started' = started + 1
    /\ ops' = {"GET", "scanStart"}
    /\ UNCHANGED <<alive, session, rlOpen, parentalPin, userGames, timers,
                   idles, reverts, active, revertOwed, exited>>
    /\ lastScan' = NoScan
    /\ activeFrom' = <<>>

\* -------------------------------------------------------------- specification
Next ==
    \/ LoggedOn
    \/ WebSession
    \/ \E i \in 1..(MaxFetches + 1), pg \in Pages : PageOk(i, pg)
    \/ \E i \in 1..(MaxFetches + 1), cause \in {"obstacle", "other"} : PageFail(i, cause)
    \/ \E i \in 1..(MaxFetches + 1), r \in UnlockAnswers : UnlockResp(i, r)
    \/ \E i \in 1..(MaxFetches + 1) : UnlockError(i)
    \/ \E j \in 1..(MaxFetches + 1), success \in BOOLEAN : PrivacyResp(j, success)
    \/ \E j \in 1..(MaxFetches + 1) : PrivacyError(j)
    \/ \E k \in 1..(2 * MaxFetches + 3) : PrivacyFires(k)
    \/ \E success \in BOOLEAN : RevertResp(success)
    \/ RevertError
    \/ \E k \in 1..(2 * MaxFetches + 3) : DwellFires(k)
    \/ \E k \in 1..(2 * MaxFetches + 3) : CooldownFires(k)
    \/ ExitLine

Spec == Init /\ [][Next]_vars

NextRefetch == Next \/ EmitFetchCards

SpecRefetch == Init /\ [][NextRefetch]_vars

\* every request a scan waits on is answered in the end: node delivers the
\* settled promise to the suspended getBadges call
PageAnswered ==
    \/ \E i \in 1..(MaxFetches + 1), pg \in Pages : PageOk(i, pg)
    \/ \E i \in 1..(MaxFetches + 1), cause \in {"obstacle", "other"} : PageFail(i, cause)

UnlockAnswered ==
    \/ \E i \in 1..(MaxFetches + 1), r \in UnlockAnswers : UnlockResp(i, r)
    \/ \E i \in 1..(MaxFetches + 1) : UnlockError(i)

FairSpec == Spec /\ WF_vars(PageAnswered) /\ WF_vars(UnlockAnswered)

\* ---------------------------------------------------------------------------
\* Properties
\* ---------------------------------------------------------------------------
Requests == {"GET", "POST privacy", "POST revert", "activate", "clear"}
Arms == {"armDwell", "armCooldown", "armPrivacy"}

\* C1: one getBadges call issues at most one unlock request (and so restarts
\* the scan at most once): a second obstacle is fatal and is not retried.
C1_AtMostOneUnlock ==
    \A i \in DOMAIN fetches : fetches[i].walled => fetches[i].unlocks <= 1

\* C2: the ids passed to gamesPlayed when games are activated are the first
\* min(27, count) items of the scan result, in scan order, never more than 27.
C2_ActiveIsFirst27 ==
    "activate" \in ops =>
        /\ Len(active) <= MAX_GAMES_TO_IDLE
        /\ Len(active) = Min(MAX_GAMES_TO_IDLE, Len(activeFrom))
        /\ \A k \in 1..Len(active) : active[k] = activeFrom[k].appId

C2_Witness ==
    /\ "activate" \in ops
    /\ Len(activeFrom) > MAX_GAMES_TO_IDLE
    /\ Len(active) = MAX_GAMES_TO_IDLE

\* C3: every item of every scan result has leftCards > 0, with or without a
\* selection set.
C3_NoZeroRemaining ==
    lastScan.valid =>
        \A k \in 1..Len(lastScan.result) : lastScan.result[k].leftCards > 0

\* a listing entry is eligible when it shows a remaining count above 0
Eligible(row) ==
    LET shown == StripNonDigits(row.text)
    IN  shown # <<>> /\ ToNumber(shown) > 0

RECURSIVE EligibleSelected(_)
EligibleSelected(rows) ==
    IF rows = <<>> THEN <<>>
    ELSE (IF Eligible(Head(rows))
             /\ (userGames.present => Head(rows).appId \in userGames.ids)
          THEN << [appId |-> Head(rows).appId,
                   leftCards |-> ToNumber(StripNonDigits(Head(rows).text))] >>
          ELSE <<>>) \o EligibleSelected(Tail(rows))

\* C4: the result of an unblocked scan is exactly the eligible discovered
\* items, restricted to the selection set when one is present, in discovery
\* order.
C4_SelectedEligibleInOrder ==
    (lastScan.valid /\ lastScan.unlocks = 0) =>
        lastScan.result = EligibleSelected(lastScan.discovered)

\* C5: when a scan returns an empty list, that step issues no visibility
\* request and no gamesPlayed call, arms no timer, leaves no cycle timer live,
\* and logs the session off.
C5_EmptyScanShutsDown ==
    (lastScan.valid /\ lastScan.result = <<>>) =>
        /\ ops \cap (Requests \cup Arms) = {}
        /\ CycleTimers = {}
        /\ "logOff" \in ops
        /\ session = "off"
        /\ ~rlOpen

C5_Witness ==
    lastScan.valid /\ lastScan.result = <<>> /\ lastScan.discovered # <<>>

\* C6: at most one cycle timer (dwell or cooldown) is live in every state,
\* also when a fetch is entered again while a cycle timer is pending.
C6_OneCycleTimer ==
    Cardinality(CycleTimers) <= 1

\* a fetch finished while an earlier cycle timer was pending: that timer was
\* cancelled and the new dwell timer is the only one
C6_Witness ==
    /\ "armDwell" \in ops
    /\ "cancelCycle" \in ops
    /\ Cardinality(CycleTimers) = 1

\* C7: at most one visibility-revert timer is live in every state.
C7_OneRevertTimer ==
    Cardinality(PrivacyTimers) <= 1

\* C8: after the `exit` line no timer is live and no step issues a page fetch,
\* a gamesPlayed call or a visibility request, or arms a timer.
C8_ExitIsTerminal ==
    exited =>
        /\ timers = <<>>
        /\ ops \cap (Requests \cup Arms) = {}

\* C9: while the profile is private and no revert request has been issued
\* since, a revert is still due: a revert timer is pending (shutdown would
\* have issued the revert itself), so the request is issued once timers fire.
C9_RevertStaysDue ==
    (alive /\ revertOwed) => PrivacyTimers # {}

\* C10: a page fetch or a gamesPlayed call is issued only while the session
\* is established: after the web session arrived and before any logOff.
C10_OnlyWhileSessionUp ==
    ops \cap {"GET", "activate", "clear"} # {} => session = "web"

\* C11: when the request that makes the profile private is answered without
\* success, the session is logged off and no cycle timer (dwell or cooldown)
\* is left live, so nothing later clears the games or scans again.
C11_PrivacyFailureShutsDown ==
    ("idleThrow" \in ops /\ "logOff" \in ops) =>
        /\ session = "off"
        /\ CycleTimers = {}

\* C12: a revert-to-public request answered without success is not fatal: the
\* step does not log the session off and the program keeps running with its
\* timers.
C12_RevertFailureNotFatal ==
    "notPublic" \in ops =>
        /\ "logOff" \notin ops
        /\ alive

\* C13: every fatal access-obstacle outcome of a scan (an obstacle met with no
\* PIN configured, or an unlock request that is rejected) logs the session
\* off and leaves no timer live and no games activated.
C13_FatalObstacleShutsDown ==
    (("scanThrow" \in ops /\ "obstacle" \in ops) \/ "wrongPin" \in ops) =>
        /\ session = "off"
        /\ timers = <<>>
        /\ active = <<>>

\* C14: a page fetch rejected by an access obstacle while no PIN is configured
\* makes the scan fail in that step: no unlock request is issued, the scan is
\* not restarted, no page is requested and no result reaches the scheduler;
\* and with no PIN no scan ever waits for an unlock answer.
C14_NoPinFailsAtOnce ==
    /\ (parentalPin = 0 /\ "obstacle" \in ops) =>
           /\ "scanThrow" \in ops
           /\ ops \cap {"POST unlock", "restart", "GET", "scanReturn"} = {}
           /\ ~lastScan.valid
    /\ parentalPin = 0 =>
           \A i \in DOMAIN fetches : fetches[i].pc = "page" /\ fetches[i].unlocks = 0

\* a scan met the obstacle with no PIN, threw and the process went on
C14_Witness ==
    /\ parentalPin = 0
    /\ "obstacle" \in ops
    /\ "scanThrow" \in ops
    /\ alive
    /\ started = 1
    /\ fetches = <<>>

\* C15: a scan is restarted only by an unlock answer that carries both the
\* success flag and a steamparental cookie; an answer lacking either one ends
\* the scan with the wrong-pin error: the session is logged off, no page is
\* requested in that step and nothing is left that would request one later.
C15_RestartOnlyIfUnlocked ==
    /\ "restart" \in ops => {"unlockAnswer", "flag", "cookie"} \subseteq ops
    /\ ("unlockAnswer" \in ops /\ ~({"flag", "cookie"} \subseteq ops)) =>
           /\ {"wrongPin", "logOff", "scanThrow"} \subseteq ops
           /\ ops \cap {"GET", "restart"} = {}
           /\ session = "off"
           /\ fetches = <<>>
           /\ CycleTimers = {}

\* the answer says success but sets no steamparental cookie
C15_Witness ==
    /\ {"unlockAnswer", "flag", "wrongPin"} \subseteq ops
    /\ "cookie" \notin ops
    /\ alive

\* C16: a page fetch or page processing failure that is not an access obstacle
\* is not treated as one: the step issues no unlock request and does not
\* restart the scan.
C16_OtherFailureIsNoObstacle ==
    "other" \in ops => ops \cap {"POST unlock", "restart"} = {}

\* C17: an attempt requests pages 1, 2, 3, ... in this order, none skipped or
\* requested twice; a restart after an unlock begins at page 1 with nothing
\* collected, so the list a scan returns is what its last attempt's pages
\* alone yield, whatever the aborted attempts had collected.
C17_PagesInOrderRestartClean ==
    /\ \A i \in DOMAIN fetches :
           fetches[i].asked = [k \in 1..fetches[i].currentPage |-> k]
    /\ "restart" \in ops =>
           \A i \in DOMAIN fetches :
               /\ fetches[i].asked = <<1>>
               /\ fetches[i].gamesWithCards = <<>>
    /\ lastScan.valid => lastScan.result = ParseRows(lastScan.discovered)

\* a scan returned games after an attempt that had collected games was aborted
C17_Witness ==
    /\ lastScan.valid
    /\ lastScan.unlocks > 0
    /\ lastScan.dropped
    /\ lastScan.result # <<>>

\* C18: the cycle runs activate, dwell fires, clear, cooldown fires, next
\* scan: every scan after the first starts with the games cleared since the
\* last activation, and no activation happens while games activated earlier
\* have not been cleared.
C18_CycleOrder ==
    /\ ("scanStart" \in ops /\ started > 1) => active = <<>>
    /\ "activate" \in ops => "wasActive" \notin ops

\* C19: every scan ends: once a getBadges call is running, it returns or
\* throws at some later point, given that each of its requests is answered
\* and pages show a bounded number of pagelinks.
C19_ScanEnds ==
    (fetches # <<>>) ~> (fetches = <<>>)

\* C20: gamesPlayed is called with games only by a step in which the request
\* that makes the profile private has returned success: the step that issues
\* the request (and arms the dwell timer) activates nothing, and neither does
\* a step in which the request fails.
C20_ActivateOnlyAfterPrivate ==
    /\ "activate" \in ops => (active # <<>> /\ "private" \in ops)
    /\ ops \cap {"POST privacy", "idleThrow"} # {} => "activate" \notin ops

\* the request failed while the dwell timer of its cycle was armed: nothing
\* was activated
C20_Witness ==
    /\ {"idleThrow", "logOff"} \subseteq ops
    /\ alive
    /\ \E k \in DOMAIN timers : timers[k].kind = "dwell"
    /\ active = <<>>

====
